---- MODULE Spec2Model ----
(***************************************************************************)
(* fetch_kline.py: a thread pool runs fetch_one for every stock code of    *)
(* the stock list; fetch_one asks the data provider for the daily k-line   *)
(* frame (Tushare with a retry loop on rate-limit errors, or AkShare with  *)
(* a single call), validates it and writes <code>.csv; main counts the     *)
(* successful futures and logs the summary.                                *)
(***************************************************************************)
EXTENDS Integers, Sequences, FiniteSets, TLC

\* ------------------------------------------------------------------ bounds
MaxCodes == 2      \* codes in the stock list (Spec)
MaxWorkers == 2    \* --workers (Spec)
MaxRows == 3       \* rows of a frame handed to validate (ValSpec)
MaxDate == 3       \* calendar days 1..MaxDate
MaxPx == 2         \* distinct price payloads of a row
MaxList == 2       \* rows of the filtered stock list (StartSpec)

\* ------------------------------------------------------- program constants
MaxRetries == 10
RetryDelay == 5
CodeWidth == 6

\* --------------------------------------------------------------- frames
\* A missing date (NaT after pd.to_datetime).
NaT == 0
\* pd.Timestamp.today(): a day that has a past and a future inside 1..MaxDate.
Today == MaxDate - 1
DateVals == 0..MaxDate
Row(d, p) == [date |-> d, px |-> p]
Rows == [date : DateVals, px : 1..MaxPx]
\* The frame fetch_one writes when the provider gave nothing: only the header.
EmptyFrame == << >>

\* A value returned by a function, or the exception it raised.
Ok(df) == [kind |-> "ok", df |-> df]
Raised(e) == [kind |-> e, df |-> << >>]

Min(a, b) == IF a < b THEN a ELSE b

\* sort_values("date"): ascending, missing dates last (na_position="last").
DateKey(d) == IF d = NaT THEN MaxDate + 1 ELSE d

RECURSIVE KeepFirst(_, _)
KeepFirst(df, i) ==
    IF i > Len(df) THEN << >>
    ELSE (IF \E j \in 1..(i - 1) : df[j].date = df[i].date
          THEN << >> ELSE << df[i] >>) \o KeepFirst(df, i + 1)

\* Variant: keep="last" instead of the default keep="first".
RECURSIVE KeepLast(_, _)
KeepLast(df, i) ==
    IF i > Len(df) THEN << >>
    ELSE (IF \E j \in (i + 1)..Len(df) : df[j].date = df[i].date
          THEN << >> ELSE << df[i] >>) \o KeepLast(df, i + 1)

DropDuplicatesKeepLast(df) == KeepLast(df, 1)

\* df.drop_duplicates(subset="date"): keep="first", missing dates equal.
DropDuplicates(df) == KeepFirst(df, 1)

\* All the orders a sort by date may leave df in: rows of equal date in any
\* order (the default kind="quicksort" is not stable).
SortOutcomes(df) ==
    LET n == Len(df)
        perms == {f \in [1..n -> 1..n] : \A i, j \in 1..n : i # j => f[i] # f[j]}
    IN {[i \in 1..n |-> df[f[i]]] : f \in
          {g \in perms : \A i \in 1..(n - 1) :
              DateKey(df[g[i]].date) <= DateKey(df[g[i + 1]].date)}}

\* Variant: ascending=False.
SortValuesDescending(df) ==
    LET n == Len(df)
        perms == {f \in [1..n -> 1..n] : \A i, j \in 1..n : i # j => f[i] # f[j]}
    IN CHOOSE s \in {[i \in 1..n |-> df[f[i]]] : f \in perms} :
          \A i \in 1..(n - 1) : DateKey(s[i].date) >= DateKey(s[i + 1].date)

\* sort_values("date") of a frame whose dates are distinct (after
\* drop_duplicates): one outcome.
SortValues(df) == CHOOSE s \in SortOutcomes(df) : TRUE

IsNaAny(df) == \E i \in 1..Len(df) : df[i].date = NaT

\* Variant: the comparison is off by one day.
AnyAfterTomorrow(df) ==
    \E i \in 1..Len(df) : df[i].date # NaT /\ df[i].date > Today + 1

\* (df["date"] > pd.Timestamp.today()).any(); NaT compares False.
AnyFuture(df) == \E i \in 1..Len(df) : df[i].date # NaT /\ df[i].date > Today

validate(df) ==
    IF df = << >> THEN Ok(df)
    ELSE LET d == SortValues(DropDuplicates(df))
         IN IF IsNaAny(d) THEN Raised("ValueError: missing date")
            ELSE IF AnyFuture(d) THEN Raised("ValueError: future date")
            ELSE Ok(d)

\* ------------------------------------------------------------- provider
\* What one call of ts.pro_bar / ak.stock_zh_a_hist can do: raise an error
\* whose message holds a rate-limit keyword, raise any other error, return
\* None or an empty frame, return a frame the normalisation cannot read (a
\* column is missing, a date does not parse), or return rows.
Limit == [kind |-> "limit", rows |-> << >>]
Error == [kind |-> "error", rows |-> << >>]
NoData == [kind |-> "nodata", rows |-> << >>]
Malformed == [kind |-> "malformed", rows |-> << >>]
Data(r) == [kind |-> "rows", rows |-> r]

\* Frames as the provider sends them (newest day first).
GoodRows == << Row(Today, 1), Row(Today - 1, 1) >>
FutureRows == << Row(Today + 1, 1), Row(Today, 1) >>
ProviderFrames == {GoodRows, FutureRows}

Responses == {Limit, Error, NoData, Malformed} \cup {Data(r) : r \in ProviderFrames}

\* ------------------------------------------------------------ stock codes
\* A stock code is a string of digits, here a sequence of digits.
Digits == {0, 4, 6, 8, 9}

\* Variant: the code is used as it is.
NoFill(code, width) == code

\* str.zfill(width): zeros on the left up to width characters.
Zfill(code, width) ==
    IF Len(code) >= width THEN code
    ELSE [i \in 1..width |->
            IF i <= width - Len(code) THEN 0 ELSE code[i - (width - Len(code))]]

\* code.startswith(prefixes)
StartsWith(code, prefixes) ==
    \E p \in prefixes : Len(p) <= Len(code) /\ SubSeq(code, 1, Len(p)) = p

\* _to_ts_code: the padded code and the exchange suffix appended to it.
to_ts_code(code) ==
    LET c == Zfill(code, CodeWidth)
    IN [code |-> c,
        suffix |-> IF StartsWith(c, {<< 6, 0 >>, << 6, 8 >>, << 9 >>}) THEN ".SH"
                   ELSE IF StartsWith(c, {<< 4 >>, << 8 >>}) THEN ".BJ"
                   ELSE ".SZ"]

RECURSIVE FromKeys(_, _)
FromKeys(cs, i) ==
    IF i > Len(cs) THEN << >>
    ELSE (IF \E j \in 1..(i - 1) : cs[j] = cs[i]
          THEN << >> ELSE << cs[i] >>) \o FromKeys(cs, i + 1)

\* Variant: the list is returned with its repetitions.
KeepAll(cs) == cs

\* list(dict.fromkeys(codes)): the first occurrence of every code, in order.
DictFromKeys(cs) == FromKeys(cs, 1)

\* load_codes_from_stocklist from the symbol column the filters left.
load_codes_from_stocklist(symbols) ==
    DictFromKeys([i \in 1..Len(symbols) |-> Zfill(symbols[i], CodeWidth)])

VARIABLES
    datasource,     \* args.datasource
    codes,          \* the list load_codes_from_stocklist returned
    disk,           \* "ok": every to_csv succeeds; "faulty": any of them may fail
    stub,           \* stub[s]: answers a scripted provider gives next; << >>: any
    queue,          \* the executor's work queue: submitted, not yet started
    wk,             \* wk[w]: the pool thread w
    hist,           \* hist[s]: the provider's answers to the calls for s, in order
    file,           \* file[s]: the content of <s>.csv
    future,         \* future[s]: state or result of the future of fetch_one(s)
    finished,       \* futures done and not yet yielded by as_completed
    success_count,  \* main's success_count
    collected,      \* the futures main has handled
    mainPc,         \* where main is
    summary,        \* the statistics main logs
    elapsed,        \* seconds spent in time.sleep so far (saturates at 60)
    vin, vout, vpc, \* a direct call of validate or _to_ts_code: argument,
                    \* result, position
    cfg             \* what main starts from: is TUSHARE_TOKEN set, can the
                    \* stock list be read, its symbol column after the
                    \* filters, args.workers

vars == << datasource, codes, disk, stub, queue, wk, hist, file, future,
           finished, success_count, collected, mainPc, summary, elapsed,
           vin, vout, vpc, cfg >>

pipeVars == << datasource, codes, disk, stub, queue, wk, hist, file, future,
               finished, success_count, collected, mainPc, summary, elapsed,
               cfg >>

Symbols == {codes[i] : i \in 1..Len(codes)}
Workers == DOMAIN wk

Idle == [pc |-> "idle", code |-> 0, attempt |-> 0]
PriorFile == [written |-> FALSE, rows |-> << >>]

\* The state main is in when the pool has been filled (every code submitted).
Started(ds, n, w, d, st) ==
    /\ datasource = ds
    /\ codes = [i \in 1..n |-> i]
    /\ disk = d
    /\ stub = st
    /\ queue = [i \in 1..n |-> i]
    /\ wk = [i \in 1..w |-> Idle]
    /\ hist = [s \in 1..n |-> << >>]
    /\ file = [s \in 1..n |-> PriorFile]
    /\ future = [s \in 1..n |-> "pending"]
    /\ finished = << >>
    /\ success_count = 0
    /\ collected = {}
    /\ mainPc = "collect"
    /\ summary = [total |-> 0, succeeded |-> 0, failed |-> 0]
    /\ elapsed = 0
    /\ cfg = [token |-> TRUE, readable |-> TRUE,
              stocklist |-> [i \in 1..n |-> i], workers |-> w]

NoValidateCall == vin = << >> /\ vout = Ok(<< >>) /\ vpc = "off"

Init ==
    /\ \E ds \in {"tushare", "akshare"}, n \in 1..MaxCodes, w \in 1..MaxWorkers :
            Started(ds, n, w, "faulty", [s \in 1..n |-> << >>])
    /\ NoValidateCall

\* ------------------------------------------------------- _get_kline_*
\* any(keyword in error_msg for keyword in [...])
IsRateLimit(r) == r.kind = "limit"

\* Variant: the sleep is not skipped on the last attempt.
RetryAlways(attempt) == attempt < MaxRetries

\* if attempt < max_retries - 1
CanRetry(attempt) == attempt < MaxRetries - 1

\* rename / to_datetime / to_numeric / sort_values of a frame with rows.
Normalised(r) ==
    IF r.kind = "malformed" THEN {Raised("KeyError")}
    ELSE {Ok(s) : s \in SortOutcomes(r.rows)}

\* What _get_kline_tushare returns (or raises) once it leaves the retry loop
\* with the answer r of the last call.
TushareReturns(r) ==
    IF r.kind \in {"limit", "error", "nodata"} THEN {Ok(<< >>)}
    ELSE Normalised(r)

\* What _get_kline_akshare returns: every exception becomes an empty frame.
AkshareReturns(r) ==
    IF r.kind \in {"limit", "error", "nodata", "malformed"} THEN {Ok(<< >>)}
    ELSE Normalised(r)

\* The answers the provider may give to the next call for s.
Answers(s) == IF stub[s] = << >> THEN Responses ELSE {Head(stub[s])}

\* Variant: no work item is started while any pool thread sleeps.
TakeUnlessSleeping(w) ==
    /\ wk[w].pc = "idle"
    /\ queue # << >>
    /\ \A v \in DOMAIN wk : wk[v].pc # "sleep"
    /\ wk' = [wk EXCEPT ![w] = [Idle EXCEPT !.pc = "call", !.code = Head(queue)]]
    /\ queue' = Tail(queue)
    /\ future' = [future EXCEPT ![Head(queue)] = "running"]
    /\ UNCHANGED << datasource, codes, disk, stub, hist, file, finished,
                    success_count, collected, mainPc, summary, elapsed,
                    vin, vout, vpc, cfg >>

\* A pool thread takes the next work item and enters fetch_one.
Take(w) ==
    /\ wk[w].pc = "idle"
    /\ queue # << >>
    /\ wk' = [wk EXCEPT ![w] = [Idle EXCEPT !.pc = "call", !.code = Head(queue)]]
    /\ queue' = Tail(queue)
    /\ future' = [future EXCEPT ![Head(queue)] = "running"]
    /\ UNCHANGED << datasource, codes, disk, stub, hist, file, finished,
                    success_count, collected, mainPc, summary, elapsed,
                    vin, vout, vpc, cfg >>

\* ------------------------------------------------------------ fetch_one
\* What fetch_one returns for the value ret of _get_kline when <s>.csv can
\* (canWrite) or cannot be written: the frame to write, or the exception the
\* except clause swallows.
FetchOutcome(ret, canWrite) ==
    IF ret.kind # "ok" THEN ret
    ELSE LET df == IF ret.df = << >> THEN EmptyFrame ELSE ret.df
             v == validate(df)
         IN IF v.kind # "ok" THEN v
            ELSE IF ~canWrite THEN Raised("OSError")
            ELSE v

\* return True after to_csv; return False from the except clause.
Result(out) == IF out.kind = "ok" THEN "True" ELSE "False"

\* Variant: the pool thread ends after its first task.
FinishThreadExits(w, ret) ==
    \E canWrite \in (IF disk = "ok" THEN {TRUE} ELSE BOOLEAN) :
       LET s == wk[w].code
           out == FetchOutcome(ret, canWrite)
       IN /\ file' = IF out.kind = "ok"
                     THEN [file EXCEPT ![s] = [written |-> TRUE, rows |-> out.df]]
                     ELSE file
          /\ future' = [future EXCEPT ![s] = Result(out)]
          /\ finished' = Append(finished, s)
          /\ wk' = [wk EXCEPT ![w] = [Idle EXCEPT !.pc = "exited"]]

\* Variant: to_csv before validate.
FinishWritesFirst(w, ret) ==
    \E canWrite \in (IF disk = "ok" THEN {TRUE} ELSE BOOLEAN) :
       LET s == wk[w].code
           out == FetchOutcome(ret, canWrite)
       IN /\ file' = IF ret.kind = "ok" /\ canWrite
                     THEN [file EXCEPT ![s] = [written |-> TRUE, rows |-> ret.df]]
                     ELSE file
          /\ future' = [future EXCEPT ![s] = Result(out)]
          /\ finished' = Append(finished, s)
          /\ wk' = [wk EXCEPT ![w] = Idle]

\* fetch_one from the return of _get_kline (ret) to its own return: the
\* df.empty test, validate, to_csv; the future is done and the thread is free.
Finish(w, ret) ==
    \E canWrite \in (IF disk = "ok" THEN {TRUE} ELSE BOOLEAN) :
       LET s == wk[w].code
           out == FetchOutcome(ret, canWrite)
       IN /\ file' = IF out.kind = "ok"
                     THEN [file EXCEPT ![s] = [written |-> TRUE, rows |-> out.df]]
                     ELSE file
          /\ future' = [future EXCEPT ![s] = Result(out)]
          /\ finished' = Append(finished, s)
          /\ wk' = [wk EXCEPT ![w] = Idle]

\* The provider answers the next call for s: the answer is recorded, a
\* scripted provider moves on.
Answered(s, r) ==
    /\ hist' = [hist EXCEPT ![s] = Append(@, r)]
    /\ stub' = [stub EXCEPT ![s] = IF @ = << >> THEN @ ELSE Tail(@)]

\* A rate-limit error of Tushare on an attempt that is not the last: the
\* thread logs a warning and sleeps.
CallRetry(w) ==
    /\ wk[w].pc = "call"
    /\ datasource = "tushare"
    /\ CanRetry(wk[w].attempt)
    /\ \E r \in Answers(wk[w].code) :
          /\ IsRateLimit(r)
          /\ Answered(wk[w].code, r)
    /\ wk' = [wk EXCEPT ![w].pc = "sleep"]
    /\ UNCHANGED << datasource, codes, disk, queue, file, future, finished,
                    success_count, collected, mainPc, summary, elapsed,
                    vin, vout, vpc, cfg >>

\* Any other answer ends _get_kline; fetch_one runs to its return.
CallReturn(w) ==
    /\ wk[w].pc = "call"
    /\ \E r \in Answers(wk[w].code) :
          /\ ~(datasource = "tushare" /\ IsRateLimit(r) /\ CanRetry(wk[w].attempt))
          /\ Answered(wk[w].code, r)
          /\ \E ret \in (IF datasource = "tushare"
                         THEN TushareReturns(r) ELSE AkshareReturns(r)) :
                Finish(w, ret)
    /\ UNCHANGED << datasource, codes, disk, queue,
                    success_count, collected, mainPc, summary, elapsed,
                    vin, vout, vpc, cfg >>

\* time.sleep(retry_delay) returns, retry_delay seconds later; continue with
\* the next attempt, or leave the loop with df still None when the range is
\* used up (fetch_one then goes on with an empty frame).
Wake(w) ==
    /\ wk[w].pc = "sleep"
    /\ elapsed' = Min(elapsed + RetryDelay, 60)
    /\ IF wk[w].attempt + 1 < MaxRetries
       THEN /\ wk' = [wk EXCEPT ![w].pc = "call", ![w].attempt = @ + 1]
            /\ UNCHANGED << file, future, finished >>
       ELSE Finish(w, Ok(<< >>))
    /\ UNCHANGED << datasource, codes, disk, stub, queue, hist,
                    success_count, collected, mainPc, summary,
                    vin, vout, vpc, cfg >>

\* ----------------------------------------------------------------- main
\* Variant: the loop is left at the first fetch that did not succeed.
AbortOnFailure(res) == IF res = "True" THEN "collect" ELSE "aborted"

\* The body of the as_completed loop: a result is counted, an exception is
\* logged; either way the loop goes on.
AfterFuture(res) == "collect"

\* if success: success_count += 1
Counted(res) == IF res = "True" THEN 1 ELSE 0

Collect ==
    /\ mainPc = "collect"
    /\ finished # << >>
    /\ LET s == Head(finished) IN
          /\ success_count' = success_count + Counted(future[s])
          /\ collected' = collected \cup {s}
          /\ mainPc' = AfterFuture(future[s])
    /\ finished' = Tail(finished)
    /\ UNCHANGED << datasource, codes, disk, stub, queue, wk, hist, file,
                    future, summary, elapsed, vin, vout, vpc, cfg >>

\* The loop is over when every future has been yielded; main logs the totals.
Summary ==
    /\ mainPc = "collect"
    /\ collected = Symbols
    /\ mainPc' = "done"
    /\ summary' = [total |-> Len(codes), succeeded |-> success_count,
                   failed |-> Len(codes) - success_count]
    /\ UNCHANGED << datasource, codes, disk, stub, queue, wk, hist, file,
                    future, finished, success_count, collected, elapsed,
                    vin, vout, vpc, cfg >>

WorkerStep(w) ==
    w \in Workers /\ (Take(w) \/ CallRetry(w) \/ CallReturn(w) \/ Wake(w))

Next ==
    \/ \E w \in Workers : Take(w)
    \/ \E w \in Workers : CallRetry(w)
    \/ \E w \in Workers : CallReturn(w)
    \/ \E w \in Workers : Wake(w)
    \/ Collect
    \/ Summary

Spec == Init /\ [][Next]_vars

\* Every pool thread and the main thread keep running.
Fairness ==
    /\ \A w \in 1..MaxWorkers : WF_vars(WorkerStep(w))
    /\ WF_vars(Collect)
    /\ WF_vars(Summary)

FairSpec == Spec /\ Fairness

\* -------------------------------------------------- a run of 41 codes
\* One pool thread, the Tushare source, a disk that works and a scripted
\* provider: the first code
\* is throttled once, the second gets a future date, the others get rows.
RateInit ==
    /\ Started("tushare", 41, 1, "ok",
               [s \in 1..41 |-> IF s = 1 THEN << Limit, Data(GoodRows) >>
                                ELSE IF s = 2 THEN << Data(FutureRows) >>
                                ELSE << Data(GoodRows) >>])
    /\ NoValidateCall

RateSpec == RateInit /\ [][Next]_vars

\* ------------------------------------------- frames validate turns down
\* A frame with a row whose trade date is missing.
NullRows == << Row(Today, 1), Row(NaT, 1) >>

\* What a scripted provider answers for one code.
RejectScripts ==
    {<< Data(FutureRows) >>, << Data(NullRows) >>, << Limit, Data(NullRows) >>,
     << Data(GoodRows) >>}

\* Either source, a disk that works, every code with one of the scripts.
RejectInit ==
    /\ \E ds \in {"tushare", "akshare"}, n \in 1..MaxCodes, w \in 1..MaxWorkers :
          \E st \in [1..n -> RejectScripts] : Started(ds, n, w, "ok", st)
    /\ NoValidateCall

RejectSpec == RejectInit /\ [][Next]_vars

\* ------------------------------------------------- main before the pool
\* Symbols as read_csv and astype(str) give them: "1", "000001", "600000".
RawSymbols == {<< 1 >>, << 0, 0, 0, 0, 0, 1 >>, << 6, 0, 0, 0, 0, 0 >>}
StockLists == UNION {[1..n -> RawSymbols] : n \in 0..MaxList}
AllCodes == {Zfill(c, CodeWidth) : c \in RawSymbols}

\* main is entered: no pool yet, the files of an earlier run on a disk that
\* works, a provider that may answer anything.
StartInit ==
    /\ datasource \in {"tushare", "akshare"}
    /\ cfg \in {c \in [token : BOOLEAN, readable : BOOLEAN,
                       stocklist : StockLists, workers : 1..MaxWorkers] :
                    ~c.readable => c.stocklist = << >>}
    /\ codes = << >>
    /\ disk = "ok"
    /\ stub = [s \in AllCodes |-> << >>]
    /\ queue = << >>
    /\ wk = << >>
    /\ hist = << >>
    /\ file = [s \in AllCodes |-> PriorFile]
    /\ future = << >>
    /\ finished = << >>
    /\ success_count = 0
    /\ collected = {}
    /\ mainPc = "start"
    /\ summary = [total |-> 0, succeeded |-> 0, failed |-> 0]
    /\ elapsed = 0
    /\ NoValidateCall

\* Tushare needs TUSHARE_TOKEN: without it main raises ValueError.
InitSource ==
    /\ mainPc = "start"
    /\ mainPc' = IF datasource = "tushare" /\ ~cfg.token THEN "raised" ELSE "load"
    /\ UNCHANGED << datasource, codes, disk, stub, queue, wk, hist, file,
                    future, finished, success_count, collected, summary,
                    elapsed, vin, vout, vpc, cfg >>

\* Variant: an empty list goes to the pool.
AfterLoadNoCheck(cs) == "collect"

\* if not codes: sys.exit(1)
AfterLoad(cs) == IF cs = << >> THEN "exit" ELSE "collect"

\* main reads the stock list and, unless that fails or leaves no code,
\* creates the pool and submits fetch_one for every code.
LoadCodes ==
    /\ mainPc = "load"
    /\ IF ~cfg.readable
       THEN /\ mainPc' = "raised"
            /\ UNCHANGED << codes, queue, wk, hist, future >>
       ELSE LET cs == load_codes_from_stocklist(cfg.stocklist)
            IN /\ codes' = cs
               /\ mainPc' = AfterLoad(cs)
               /\ IF AfterLoad(cs) = "collect"
                  THEN /\ queue' = cs
                       /\ wk' = [i \in 1..cfg.workers |-> Idle]
                       /\ hist' = [s \in {cs[i] : i \in 1..Len(cs)} |-> << >>]
                       /\ future' = [s \in {cs[i] : i \in 1..Len(cs)} |-> "pending"]
                  ELSE UNCHANGED << queue, wk, hist, future >>
    /\ UNCHANGED << datasource, disk, stub, file, finished, success_count,
                    collected, summary, elapsed, vin, vout, vpc, cfg >>

StartNext == InitSource \/ LoadCodes \/ Next

StartSpec == StartInit /\ [][StartNext]_vars

\* ---------------------------------------------- validate called directly
Frames == UNION {[1..n -> Rows] : n \in 0..MaxRows}

ValInit ==
    /\ Started("akshare", 0, 1, "ok", << >>)
    /\ vin \in Frames
    /\ vout = Ok(<< >>)
    /\ vpc = "call"

ValidateCall ==
    /\ vpc = "call"
    /\ vout' = validate(vin)
    /\ vpc' = "done"
    /\ UNCHANGED << pipeVars, vin >>

ValNext == ValidateCall

ValSpec == ValInit /\ [][ValNext]_vars


\* -------------------------------------------- _to_ts_code called directly
\* The codes handed to _to_ts_code: up to CodeWidth digits.
CodeStrings == UNION {[1..n -> Digits] : n \in 1..CodeWidth}

ToTsCodeInit ==
    /\ Started("akshare", 0, 1, "ok", << >>)
    /\ vin \in CodeStrings
    /\ vout = Ok(<< >>)
    /\ vpc = "to_ts_code"

ToTsCodeCall ==
    /\ vpc = "to_ts_code"
    /\ vout' = to_ts_code(vin)
    /\ vpc' = "done"
    /\ UNCHANGED << pipeVars, vin >>

ToTsCodeNext == ToTsCodeCall

ToTsCodeSpec == ToTsCodeInit /\ [][ToTsCodeNext]_vars

\* ------------------------------------------- to_csv, and a killed process
\* The frames validate returns, as fetch_one hands them to to_csv.
WriteFrames == {f \in Frames : validate(f) = Ok(f)}

\* <code>.csv while to_csv has it open, k lines of the header and the rows
\* of df having reached the disk: the file was truncated when it was opened
\* and is the whole new file once the last line is there.
OnDisk(df, k) ==
    IF k = Len(df) + 1 THEN [written |-> TRUE, rows |-> df]
    ELSE [written |-> TRUE, rows |-> SubSeq(df, 1, k - 1), lines |-> k]

\* fetch_one for the one code of a run, validate has just returned df; the
\* code's file is absent or holds the frame of an earlier run.
KillInit ==
    /\ \E df \in WriteFrames :
       \E old \in {PriorFile} \cup {[written |-> TRUE, rows |-> f] : f \in WriteFrames} :
          /\ wk = << [pc |-> "to_csv", code |-> 1, attempt |-> 1,
                      df |-> df, lines |-> 0] >>
          /\ hist = << << IF df = << >> THEN NoData ELSE Data(df) >> >>
          /\ file = << old >>
    /\ datasource = "akshare"
    /\ codes = << 1 >>
    /\ disk = "ok"
    /\ stub = << << >> >>
    /\ queue = << >>
    /\ future = << "running" >>
    /\ finished = << >>
    /\ success_count = 0
    /\ collected = {}
    /\ mainPc = "collect"
    /\ summary = [total |-> 0, succeeded |-> 0, failed |-> 0]
    /\ elapsed = 0
    /\ cfg = [token |-> TRUE, readable |-> TRUE, stocklist |-> << 1 >>,
              workers |-> 1]
    /\ NoValidateCall

\* df.to_csv(csv_path) opens the file for writing: its content is gone.
ToCsvOpen(w) ==
    /\ mainPc # "killed"
    /\ wk[w].pc = "to_csv"
    /\ file' = [file EXCEPT ![wk[w].code] = OnDisk(wk[w].df, 0)]
    /\ wk' = [wk EXCEPT ![w].pc = "writing"]
    /\ UNCHANGED << datasource, codes, disk, stub, queue, hist, future,
                    finished, success_count, collected, mainPc, summary,
                    elapsed, vin, vout, vpc, cfg >>

\* Some more lines reach the disk.
ToCsvWrite(w) ==
    /\ mainPc # "killed"
    /\ wk[w].pc = "writing"
    /\ \E k \in (wk[w].lines + 1)..(Len(wk[w].df) + 1) :
          /\ file' = [file EXCEPT ![wk[w].code] = OnDisk(wk[w].df, k)]
          /\ wk' = [wk EXCEPT ![w].lines = k]
    /\ UNCHANGED << datasource, codes, disk, stub, queue, hist, future,
                    finished, success_count, collected, mainPc, summary,
                    elapsed, vin, vout, vpc, cfg >>

\* Every line is written: to_csv closes the file, fetch_one returns True.
ToCsvClose(w) ==
    /\ mainPc # "killed"
    /\ wk[w].pc = "writing"
    /\ wk[w].lines = Len(wk[w].df) + 1
    /\ future' = [future EXCEPT ![wk[w].code] = "True"]
    /\ finished' = Append(finished, wk[w].code)
    /\ wk' = [wk EXCEPT ![w] = Idle]
    /\ UNCHANGED << datasource, codes, disk, stub, queue, hist, file,
                    success_count, collected, mainPc, summary, elapsed,
                    vin, vout, vpc, cfg >>

\* The process is killed: no thread takes another step.
Kill ==
    /\ mainPc # "killed"
    /\ mainPc' = "killed"
    /\ UNCHANGED << datasource, codes, disk, stub, queue, wk, hist, file,
                    future, finished, success_count, collected, summary,
                    elapsed, vin, vout, vpc, cfg >>

KillNext ==
    \/ \E w \in Workers : ToCsvOpen(w)
    \/ \E w \in Workers : ToCsvWrite(w)
    \/ \E w \in Workers : ToCsvClose(w)
    \/ Kill

KillSpec == KillInit /\ [][KillNext]_vars

\* ================================================================ claims
Terminal(s) == future[s] \in {"True", "False", "exception"}

RECURSIVE SumCalls(_)
SumCalls(S) ==
    IF S = {} THEN 0
    ELSE LET s == CHOOSE x \in S : TRUE IN Len(hist[s]) + SumCalls(S \ {s})

\* Provider calls made so far, by all threads together.
CallsMade == SumCalls(Symbols)

AllAnswers(s, kinds) ==
    /\ hist[s] # << >>
    /\ \A i \in 1..Len(hist[s]) : hist[s][i].kind \in kinds

\* C1: no more than 40 provider calls fall within a rolling 60-second window,
\* over all threads together. The only waiting the code does is time.sleep
\* in the retry loop (a call takes as long as the provider needs, down to no
\* time), so while fewer than 60 seconds were slept every call made so far
\* can lie in one 60-second window: there may then be at most 40 of them.
C1_AtMost40PerMinute == elapsed < 60 => CallsMade <= 40

\* C2: a symbol whose every provider call raises a rate-limit error never
\* gets more than 3 calls and ends, after exactly 3, as a failed fetch (on
\* the Tushare path, the one with a retry loop).
C2_ThrottledFailsAfter3 ==
    \A s \in Symbols :
       (datasource = "tushare" /\ AllAnswers(s, {"limit"})) =>
          /\ Len(hist[s]) <= 3
          /\ Terminal(s) => (Len(hist[s]) = 3 /\ future[s] = "False")

\* C3: a symbol whose first call fails with a non-throttle error and whose
\* second call returns rows ends successful after exactly 2 calls, the file
\* holding the rows of the second call.
C3_TransientThenSeries ==
    \A s \in Symbols :
       (Terminal(s) /\ hist[s] # << >> /\ hist[s][1] = Error) =>
          /\ Len(hist[s]) = 2
          /\ hist[s][2].kind = "rows" =>
                /\ future[s] = "True"
                /\ Ok(file[s].rows) \in Normalised(hist[s][2])

AlwaysFails(s) == AllAnswers(s, {"limit", "error"})
AlwaysSucceeds(s) ==
    /\ hist[s] # << >>
    /\ \A i \in 1..Len(hist[s]) : hist[s][i] = Data(GoodRows)

\* C4: when every symbol either always fails at the provider or always gets
\* rows (which are then written), the summary counts the second kind as
\* succeeded, the first kind as failed, and the two add up to the total, each
\* symbol handled once.
C4_PoolCounts ==
    (/\ mainPc = "done"
     /\ \A s \in Symbols : AlwaysFails(s) \/ (AlwaysSucceeds(s) /\ file[s].written))
    => /\ summary.succeeded = Cardinality({s \in Symbols : AlwaysSucceeds(s)})
       /\ summary.failed = Cardinality({s \in Symbols : AlwaysFails(s)})
       /\ summary.succeeded + summary.failed = summary.total
       /\ summary.total = Cardinality(Symbols)
       /\ collected = Symbols

\* C5: a symbol whose every provider call raises a non-throttle error ends
\* failed, never successful, and the summary's failed count includes it.
C5_TransientEndsFailed ==
    /\ \A s \in Symbols :
          (Terminal(s) /\ AllAnswers(s, {"error"})) => future[s] = "False"
    /\ mainPc = "done" =>
          summary.failed >= Cardinality({s \in Symbols : AllAnswers(s, {"error"})})

\* C6: under fair scheduling every symbol reaches a terminal outcome and the
\* run reaches its summary, whatever the provider answers.
C6_AllTerminate ==
    <>(mainPc = "done" /\ \A s \in Symbols : Terminal(s))

\* A run that reached the summary although a symbol was throttled on every
\* one of its MaxRetries attempts while another symbol was fetched.
C6_Witness ==
    /\ mainPc = "done"
    /\ \E s \in Symbols : Len(hist[s]) = MaxRetries /\ AllAnswers(s, {"limit"})
    /\ Cardinality(Symbols) > 1

\* The results fetch_one can give for s, from the answers s itself got.
OwnResults(s) ==
    LET r == hist[s][Len(hist[s])]
        rets == IF datasource = "tushare" THEN TushareReturns(r) ELSE AkshareReturns(r)
    IN {IF FetchOutcome(ret, cw).kind = "ok" THEN "True" ELSE "False" :
           ret \in rets, cw \in BOOLEAN}

\* C7: an error in one symbol's fetch, validation or write never aborts the
\* pool and never changes another symbol's outcome: main never stops early,
\* something can always run until the summary, at the summary every symbol has
\* its outcome, and each outcome is one its own answers and write allow.
C7_Isolation ==
    /\ mainPc \in {"collect", "done"}
    /\ mainPc = "done" \/ ENABLED Next
    /\ mainPc = "done" => \A s \in Symbols : Terminal(s) /\ s \in collected
    /\ \A s \in Symbols : Terminal(s) => future[s] \in OwnResults(s)
    /\ success_count = Cardinality({s \in collected : future[s] = "True"})

\* A finished run in which one symbol failed and another succeeded.
C7_Witness ==
    /\ mainPc = "done"
    /\ \E s, t \in Symbols : future[s] = "False" /\ future[t] = "True"

HasDuplicate(df) == \E i, j \in 1..Len(df) : i < j /\ df[i].date = df[j].date
HasNull(df) == \E i \in 1..Len(df) : df[i].date = NaT
HasFutureDate(df) == \E i \in 1..Len(df) : df[i].date # NaT /\ df[i].date > Today
DatesOf(df) == {df[i].date : i \in 1..Len(df)}
FirstWith(df, d) ==
    CHOOSE i \in 1..Len(df) : df[i].date = d /\ \A j \in 1..(i - 1) : df[j].date # d

\* C8: for a non-empty frame with duplicate dates (no null or future date)
\* validate returns one row per distinct date, the first occurrence of the
\* date in the input, the dates ascending.
C8_DedupKeepsFirst ==
    (vpc = "done" /\ HasDuplicate(vin) /\ ~HasNull(vin) /\ ~HasFutureDate(vin)) =>
       /\ vout.kind = "ok"
       /\ Len(vout.df) = Cardinality(DatesOf(vin))
       /\ DatesOf(vout.df) = DatesOf(vin)
       /\ \A i \in 1..(Len(vout.df) - 1) : vout.df[i].date < vout.df[i + 1].date
       /\ \A k \in 1..Len(vout.df) : vout.df[k] = vin[FirstWith(vin, vout.df[k].date)]

\* Three rows, one date twice with different prices, give two rows.
C8_Witness ==
    /\ vpc = "done"
    /\ Len(vin) = 3 /\ Cardinality(DatesOf(vin)) = 2
    /\ ~HasNull(vin) /\ ~HasFutureDate(vin)
    /\ \E i, j \in 1..3 : i < j /\ vin[i].date = vin[j].date /\ vin[i].px # vin[j].px
    /\ vout.kind = "ok" /\ Len(vout.df) = 2

\* C9: a frame holding a date after today is rejected with a validation
\* error, whatever its other rows are.
C9_FutureRejected ==
    (vpc = "done" /\ HasFutureDate(vin)) =>
       vout.kind \in {"ValueError: future date", "ValueError: missing date"}

\* A frame with a duplicate, out of order and with a future date is rejected.
C9_Witness ==
    /\ vpc = "done"
    /\ HasFutureDate(vin) /\ HasDuplicate(vin)
    /\ vin[Len(vin)].date = 1
    /\ vout.kind = "ValueError: future date"

StrictlyIncreasing(df) ==
    \A i \in 1..(Len(df) - 1) : df[i].date < df[i + 1].date

\* C10: a frame whose dates are strictly increasing, not null and not after
\* today is accepted and returned as it is.
C10_ValidUnchanged ==
    (vpc = "done" /\ StrictlyIncreasing(vin) /\ ~HasNull(vin) /\ ~HasFutureDate(vin)) =>
       vout = Ok(vin)

\* An accepted frame of several rows.
C10_Witness ==
    /\ vpc = "done"
    /\ Len(vin) >= 2
    /\ StrictlyIncreasing(vin) /\ ~HasNull(vin) /\ ~HasFutureDate(vin)
    /\ vout = Ok(vin)

\* The provider's answer to the last call made for s.
LastAnswer(s) == hist[s][Len(hist[s])]

\* <s>.csv holds the column names and no row.
HeaderOnly(s) == file[s].written /\ file[s].rows = << >>

\* C11: a header-only file marks a series the provider verified to be empty.
\* A symbol the provider reports no data for ends as a success with a
\* header-only file (whenever the file can be written); a symbol the provider
\* returned rows for never gets a header-only file; and a header-only file
\* is written only after the provider answered "no data", never for a symbol
\* whose last provider call failed.
C11_HeaderOnlyVerifiedEmpty ==
    \A s \in Symbols :
       (Terminal(s) /\ hist[s] # << >>) =>
          /\ LastAnswer(s) = NoData =>
                /\ future[s] = "True" <=> HeaderOnly(s)
                /\ disk = "ok" => future[s] = "True"
          /\ LastAnswer(s).kind = "rows" => ~HeaderOnly(s)
          /\ HeaderOnly(s) => LastAnswer(s) = NoData

\* The provider returned rows with a missing date or a date after today.
Rejectable(r) == r.kind = "rows" /\ (HasNull(r.rows) \/ HasFutureDate(r.rows))

\* C15: when validate turns the fetched frame down (a future or a missing
\* date), the answer that carried the frame is the last provider call made
\* for the symbol, the symbol's future holds False, and <code>.csv is what it
\* was before the run.
C15_RejectedNotRetriedNotWritten ==
    \A s \in Symbols : \A i \in 1..Len(hist[s]) :
       Rejectable(hist[s][i]) =>
          /\ i = Len(hist[s])
          /\ future[s] = "False"
          /\ file[s] = PriorFile

\* A code throttled once and then answered with a frame holding a missing
\* date, while another code of the run was answered with a future date.
C15_Witness ==
    /\ mainPc = "done"
    /\ \E s \in Symbols :
          /\ hist[s] = << Limit, Data(NullRows) >>
          /\ future[s] = "False" /\ file[s] = PriorFile
    /\ \E s \in Symbols :
          /\ hist[s] = << Data(FutureRows) >>
          /\ future[s] = "False" /\ file[s] = PriorFile

\* The codes whose fetch_one is running, and the pool threads running one.
InFlight == {s \in Symbols : future[s] = "running"}
Busy == {w \in Workers : wk[w].pc # "idle"}

\* C17: never more codes in flight than pool threads: every code in flight
\* is held by exactly one busy thread and every busy thread holds a code in
\* flight; a thread lets go of its code only when that code's future is done,
\* and only then is it free for the next; and while a thread sleeps in the
\* retry loop, every other thread that has a call to make or a queued code to
\* take can take its step.
C17_WorkersBoundInFlight ==
    /\ [](/\ Cardinality(InFlight) <= Cardinality(Workers)
          /\ \A s \in InFlight :
                Cardinality({w \in Busy : wk[w].code = s}) = 1
          /\ \A w \in Busy : wk[w].code \in InFlight
          /\ \A w, v \in Workers :
                (/\ wk[w].pc = "sleep" /\ v # w
                 /\ wk[v].pc = "call" \/ (wk[v].pc = "idle" /\ queue # << >>))
                => ENABLED WorkerStep(v))
    /\ [][\A w \in Workers :
             (w \in Busy /\ wk'[w].code # wk[w].code) =>
                /\ wk'[w] = Idle
                /\ future'[wk[w].code] \in {"True", "False", "exception"}]_vars

\* Both threads busy, one asleep after a throttled call while the other is
\* about to call the provider for the other code.
C17_Witness ==
    /\ Cardinality(Workers) = 2 /\ Cardinality(InFlight) = 2
    /\ \E w, v \in Workers :
          /\ wk[w].pc = "sleep" /\ wk[v].pc = "call"
          /\ wk[v].attempt > 0

\* C18: the provider calls made for one code are bounded whatever the
\* provider answers. On the Tushare path there are at most 10, every call
\* but the last was answered with a rate-limit error, and a thread sleeps
\* only when another attempt follows (never after the 10th); on the AkShare
\* path a code gets one call and no sleep, exactly one once its fetch is over.
C18_CallsBounded ==
    /\ \A s \in Symbols :
          /\ Len(hist[s]) <= 10
          /\ \A i \in 1..(Len(hist[s]) - 1) : hist[s][i].kind = "limit"
          /\ datasource = "akshare" => Len(hist[s]) <= 1
          /\ (datasource = "akshare" /\ Terminal(s)) => Len(hist[s]) = 1
          /\ Terminal(s) => Len(hist[s]) >= 1
    /\ \A w \in Workers :
          /\ wk[w].pc = "sleep" =>
                /\ datasource = "tushare"
                /\ Len(hist[wk[w].code]) < 10
                /\ LastAnswer(wk[w].code).kind = "limit"
          /\ wk[w].pc = "call" => Len(hist[wk[w].code]) = wk[w].attempt

\* A code throttled on all 10 calls: its fetch is over, no sleep follows.
C18_Witness ==
    \E s \in Symbols :
       /\ datasource = "tushare"
       /\ Len(hist[s]) = 10 /\ AllAnswers(s, {"limit"})
       /\ Terminal(s)
       /\ \A w \in Workers : wk[w].pc # "sleep"

\* The run cannot start: Tushare without its token, a stock list that cannot
\* be read, or one the filters left no symbol of.
ConfigError ==
    \/ datasource = "tushare" /\ ~cfg.token
    \/ ~cfg.readable
    \/ cfg.stocklist = << >>

\* C12: a run with a configuration error never gets to the pool: main stops
\* (ValueError, the exception of read_csv, or sys.exit(1)) with no code
\* submitted, no pool thread, no provider call made and every <code>.csv as
\* it was; a missing token stops main before the stock list is read.
C12_ConfigErrorAborts ==
    ConfigError =>
       /\ mainPc \in {"start", "load", "raised", "exit"}
       /\ (datasource = "tushare" /\ ~cfg.token) => mainPc \in {"start", "raised"}
       /\ queue = << >> /\ DOMAIN wk = {}
       /\ DOMAIN hist = {} /\ DOMAIN future = {}
       /\ \A s \in DOMAIN file : file[s] = PriorFile

\* main has raised ValueError for the missing token, the stock list being
\* readable and not empty.
C12_Witness ==
    /\ mainPc = "raised"
    /\ datasource = "tushare" /\ ~cfg.token
    /\ cfg.readable /\ cfg.stocklist # << >>

NoDup(seq) == \A i, j \in 1..Len(seq) : i # j => seq[i] # seq[j]
InSeq(x, seq) == \E i \in 1..Len(seq) : seq[i] = x
Holders(s) == {w \in Busy : wk[w].code = s}

\* C14: the list handed to the pool holds every symbol of the stock list
\* padded to 6 characters, each once; a code is queued while its future is
\* pending, held by exactly one pool thread while it runs and by none once it
\* is done, so no two threads ever work on the same <code>.csv; and a file
\* changes only in the step that ends the one task of its code.
C14_OneTaskPerCode ==
    /\ [](/\ NoDup(codes) /\ NoDup(queue)
          /\ \A i \in 1..Len(codes) : Len(codes[i]) = CodeWidth
          /\ mainPc \in {"collect", "done"} =>
                Symbols = {Zfill(cfg.stocklist[i], CodeWidth) :
                              i \in 1..Len(cfg.stocklist)}
          /\ \A w, v \in Busy : w # v => wk[w].code # wk[v].code
          /\ \A s \in DOMAIN future :
                /\ future[s] = "pending" <=> InSeq(s, queue)
                /\ future[s] = "running" <=> Cardinality(Holders(s)) = 1
                /\ Terminal(s) => Holders(s) = {})
    /\ [][\A s \in DOMAIN file :
             file'[s] # file[s] =>
                /\ s \in DOMAIN future /\ future[s] = "running"
                /\ future'[s] = "True"]_vars

\* The stock list names one stock twice, as 1 and as 000001: the run is over
\* with one code and its file written.
C14_Witness ==
    /\ mainPc = "done"
    /\ Len(cfg.stocklist) = 2 /\ cfg.stocklist[1] # cfg.stocklist[2]
    /\ codes = << << 0, 0, 0, 0, 0, 1 >> >>
    /\ file[codes[1]].written

\* C13: _to_ts_code pads the symbol with zeros on the left to 6 characters
\* and appends the suffix the padded symbol's prefix selects: .SH for 60, 68
\* or 9; otherwise .BJ for 4 or 8; otherwise .SZ.
C13_SuffixByPrefix ==
    vpc = "done" =>
       LET c == vout.code
           k == 6 - Len(vin)
       IN /\ Len(c) = 6
          /\ \A i \in 1..6 : c[i] = IF i <= k THEN 0 ELSE vin[i - k]
          /\ vout.suffix =
                IF (c[1] = 6 /\ c[2] \in {0, 8}) \/ c[1] = 9 THEN ".SH"
                ELSE IF c[1] \in {4, 8} THEN ".BJ"
                ELSE ".SZ"

\* A short symbol that begins with 9: padded it begins with 0 and gets .SZ.
C13_Witness ==
    /\ vpc = "done"
    /\ Len(vin) < 6 /\ vin[1] = 9
    /\ vout.suffix = ".SZ"

\* C16: when the process is killed, every <code>.csv is a whole file, the
\* content it had before the run or a complete validated frame under its
\* header, never a file cut short.
C16_NeverTorn ==
    mainPc = "killed" =>
       \A s \in Symbols :
          file[s] \in {PriorFile} \cup
                      {[written |-> TRUE, rows |-> f] : f \in WriteFrames}

====
